---- MODULE Spec2Model ----
(***************************************************************************)
(* Model of the Nextcloud Steampipe plugin: the connection config, the     *)
(* HTTP client wrapper (NewNextcloudClient, MakeRequest, GetJSON,          *)
(* TestConnection) and the four table handlers (listActivity, getActivity, *)
(* listShares, getShare).                                                   *)
(*                                                                         *)
(* Go values are modelled as follows.                                      *)
(*   - a Go string is a sequence of tokens (TLA+ strings); a literal of    *)
(*     the source is one token, a dynamic string a sequence of characters, *)
(*     and concatenation / fmt verbs are sequence concatenation;           *)
(*   - a pointer or interface that may be nil is None (<<>>) or Some(v)    *)
(*     (<<v>>); a nil error is the empty message NoErr;                    *)
(*   - an error is its message, so fmt.Errorf("p: %w", e) is p \o e.       *)
(* Spec runs one handler invocation; it blocks at the two outbound HTTP     *)
(* calls (probe, data request) and at each StreamListItem.  SpecConc runs  *)
(* several invocations over one connection, interleaved at those points.   *)
(***************************************************************************)
EXTENDS Integers, Sequences, FiniteSets, TLC

VARIABLES pc, handler, conn, quals, client, calls, items, rows, result, err,
          ctx, procs

vars == <<pc, handler, conn, quals, client, calls, items, rows, result, err,
          ctx, procs>>

(***************************************************************************)
(* Bounds of the model.                                                    *)
(***************************************************************************)
MaxSlashes == 2     \* "/" at the end of a configured server_url
MaxData == 2        \* records in the data array of an envelope
MaxQuals == 1       \* equality qualifiers in one query
NumProcs == 2       \* concurrent invocations over one connection

(***************************************************************************)
(* Generic helpers.                                                         *)
(***************************************************************************)
None == <<>>
Some(x) == <<x>>
NoErr == <<>>

SeqsUpTo(S, n) == UNION {[1..k -> S] : k \in 0..n}

\* strings.HasSuffix
HasSuffix(s, suf) ==
  /\ Len(s) >= Len(suf)
  /\ SubSeq(s, Len(s) - Len(suf) + 1, Len(s)) = suf

\* strings.Contains: sub occurs in s as a contiguous run of tokens
Contains(s, sub) ==
  \E i \in 0..(Len(s) - Len(sub)) : SubSeq(s, i + 1, i + Len(sub)) = sub

\* fmt's %d
RECURSIVE FormatNat(_)
FormatNat(n) ==
  LET d == <<"0", "1", "2", "3", "4", "5", "6", "7", "8", "9">>
  IN IF n < 10 THEN <<d[n + 1]>> ELSE FormatNat(n \div 10) \o <<d[(n % 10) + 1]>>

FormatInt(n) == IF n < 0 THEN <<"-">> \o FormatNat(-n) ELSE FormatNat(n)

\* strconv.ParseInt(s, 10, 64): an optional sign, then one or more decimal
\* digits.  The values of the model stay far inside the int64 range, so the
\* range error of ParseInt cannot arise.
Digits == {"0", "1", "2", "3", "4", "5", "6", "7", "8", "9"}
DigitVal(c) == CHOOSE v \in 0..9 : FormatNat(v) = <<c>>

RECURSIVE ParseNat(_)
ParseNat(s) ==
  IF Len(s) = 1 THEN DigitVal(s[1])
  ELSE 10 * ParseNat(SubSeq(s, 1, Len(s) - 1)) + DigitVal(s[Len(s)])

ParseInt(s) ==
  LET signed == Len(s) > 0 /\ s[1] \in {"+", "-"}
      body   == IF signed THEN Tail(s) ELSE s
      ok     == Len(body) > 0 /\ \A i \in 1..Len(body) : body[i] \in Digits
  IN IF ~ok THEN [ok |-> FALSE, val |-> 0]
     ELSE [ok |-> TRUE,
           val |-> IF signed /\ s[1] = "-" THEN -ParseNat(body) ELSE ParseNat(body)]

(***************************************************************************)
(* Connection config (connection_config.go).                               *)
(***************************************************************************)
\* A configured server_url is a stem followed by some "/".  In a stem "h"
\* stands for a scheme-and-host prefix such as https://cloud.example, "p"
\* for a path segment, "/" for the path separator and "%" for a percent
\* sign that starts no valid escape (url.Parse rejects it).
UrlStems == {<<>>, <<"h">>, <<"p">>, <<"h", "%">>}
UrlStrings == {stem \o [i \in 1..n |-> "/"] : stem \in UrlStems, n \in 0..MaxSlashes}
CredStrings == {<<>>, <<"s3cret">>}

\* NextcloudConfig: three *string fields
NextcloudConfig ==
  [ServerURL : {None} \cup {Some(s) : s \in UrlStrings},
   Username  : {None} \cup {Some(s) : s \in CredStrings},
   Password  : {None} \cup {Some(s) : s \in CredStrings}]

\* ConfigInstance / &NextcloudConfig{}
ConfigInstance == [ServerURL |-> None, Username |-> None, Password |-> None]

FullConfig ==
  [ServerURL |-> Some(<<"h">>), Username |-> Some(<<"s3cret">>),
   Password |-> Some(<<"s3cret">>)]

\* *plugin.Connection: nil, or a connection whose Config is nil, a
\* *NextcloudConfig, a NextcloudConfig value, or a value of another type
\* (whatever that value holds is not a NextcloudConfig).
Connections ==
       {[nil |-> TRUE, cfgType |-> "nil", cfg |-> ConfigInstance],
        [nil |-> FALSE, cfgType |-> "nil", cfg |-> ConfigInstance]}
  \cup {[nil |-> FALSE, cfgType |-> t, cfg |-> c] :
           t \in {"other", "value"}, c \in {ConfigInstance, FullConfig}}
  \cup {[nil |-> FALSE, cfgType |-> "ptr", cfg |-> c] : c \in NextcloudConfig}

GetConfig(c) ==
  IF c.nil \/ c.cfgType = "nil" THEN ConfigInstance
  ELSE IF c.cfgType = "ptr" THEN c.cfg
  ELSE IF c.cfgType = "value" THEN c.cfg
  ELSE ConfigInstance

\* cfg.X != nil && *cfg.X != ""
Configured(p) == p # None /\ p[1] # <<>>

NormalizeBaseURLAlways(s) == s \o <<"/">>

\* if !strings.HasSuffix(client.BaseURL, "/") { client.BaseURL += "/" }
NormalizeBaseURL(s) == IF ~HasSuffix(s, <<"/">>) THEN s \o <<"/">> ELSE s

MustBeConfigured(name) == <<name, " must be configured">>

ValidateConfigUserFirst(cfg) ==
  IF ~Configured(cfg.Username)
    THEN [client |-> None, err |-> MustBeConfigured("username")]
  ELSE IF ~Configured(cfg.ServerURL)
    THEN [client |-> None, err |-> MustBeConfigured("server_url")]
  ELSE IF ~Configured(cfg.Password)
    THEN [client |-> None, err |-> MustBeConfigured("password")]
  ELSE [client |-> Some([BaseURL  |-> NormalizeBaseURL(cfg.ServerURL[1]),
                         Username |-> cfg.Username[1],
                         Password |-> cfg.Password[1]]),
        err |-> NoErr]

\* NewNextcloudClient up to the probe: the three presence checks in source
\* order, then the BaseURL normalisation.
ValidateConfig(cfg) ==
  IF ~Configured(cfg.ServerURL)
    THEN [client |-> None, err |-> MustBeConfigured("server_url")]
  ELSE IF ~Configured(cfg.Username)
    THEN [client |-> None, err |-> MustBeConfigured("username")]
  ELSE IF ~Configured(cfg.Password)
    THEN [client |-> None, err |-> MustBeConfigured("password")]
  ELSE [client |-> Some([BaseURL  |-> NormalizeBaseURL(cfg.ServerURL[1]),
                         Username |-> cfg.Username[1],
                         Password |-> cfg.Password[1]]),
        err |-> NoErr]

(***************************************************************************)
(* The remote service: what HTTPClient.Do can yield for a request.         *)
(***************************************************************************)
HttpStatuses == {200, 400, 500}

\* ocs.meta of an envelope
Metas ==
  {[status |-> "ok",      statuscode |-> 200, message |-> <<"OK">>],
   [status |-> "failure", statuscode |-> 997, message |-> <<"Unauthorised">>]}

UserNames == {<<"a">>, <<"b">>}
ActivityIds == {1, 11}

\* elements of ocs.data as they are on the wire, under their JSON keys.  A
\* datetime is RFC 3339 text: the local date and time, then the zone.
WireActivities ==
  {[activity_id |-> 1, user |-> <<"a">>, app |-> <<"files">>,
    type |-> <<"file_created">>, subject |-> <<"You created a.txt">>,
    datetime |-> <<"2024-05-01T10:00:00", "+02:00">>],
   [activity_id |-> 1, user |-> <<"b">>, app |-> <<"files_sharing">>,
    type |-> <<"shared">>, subject |-> <<>>,
    datetime |-> <<"2024-05-01T08:00:00", "Z">>],
   [activity_id |-> 11, user |-> <<"b">>, app |-> <<"files">>,
    type |-> <<"file_created">>, subject |-> <<"You created a.txt">>,
    datetime |-> <<"2023-12-31T23:59:59", "-01:00">>]}
WireShares ==
  {[id |-> FormatInt(w.activity_id), uid_owner |-> w.user] : w \in WireActivities}

NoMeta == [status |-> "", statuscode |-> 0, message |-> <<>>]

\* A response body is its bytes.  json says whether the bytes are a JSON
\* object; when they are, meta and data are what the object holds under
\* ocs.meta and ocs.data, otherwise text holds the bytes.
TextBodies == {[json |-> FALSE, text |-> <<"<html>">>, meta |-> NoMeta, data |-> <<>>]}

EnvelopeBodies(Records, n) ==
  {[json |-> TRUE, text |-> <<>>, meta |-> m, data |-> d] :
      m \in Metas, d \in SeqsUpTo(Records, n)}

\* string(bodyBytes): the bytes of the body as text
RawText(body) ==
  IF body.json THEN <<ToString([ocs |-> [meta |-> body.meta, data |-> body.data]])>>
  ELSE body.text

TransportError == [transport |-> TRUE, status |-> 0, body |-> CHOOSE b \in TextBodies : TRUE]

Responses(Bodies) == [transport : {FALSE}, status : HttpStatuses, body : Bodies]

ProbeEndpoint == <<"ocs/v1.php/cloud/capabilities?format=json">>
ActivityEndpoint == <<"ocs/v2.php/apps/activity/api/v2/activity?format=json">>
SharesEndpoint == <<"ocs/v2.php/apps/files_sharing/api/v1/shares?format=json">>
\* fmt.Sprintf("ocs/v2.php/apps/files_sharing/api/v1/shares/%d?format=json", id)
ShareEndpoint(id) ==
  <<"ocs/v2.php/apps/files_sharing/api/v1/shares/">> \o FormatInt(id) \o <<"?format=json">>

\* The bodies the remote service can answer with at an endpoint.
BodiesAt(endpoint) ==
  TextBodies \cup
  (IF endpoint = ProbeEndpoint THEN EnvelopeBodies(WireActivities, 0)
   ELSE IF endpoint = ActivityEndpoint THEN EnvelopeBodies(WireActivities, MaxData)
   ELSE EnvelopeBodies(WireShares, MaxData))

\* What HTTPClient.Do returns for a request: an error, or a response.  A URL
\* that does not start with a scheme and host cannot be sent, so Do fails.
\* A request bound to a context that is cancelled is not answered: Do
\* returns the context's error.  A response with an error status holds no
\* records.
DoOutcomes(req, endpoint) ==
  IF req.ctx /\ ctx # "active" THEN {TransportError}
  ELSE IF req.url[1] = "h"
    THEN {TransportError} \cup
         {r \in Responses(BodiesAt(endpoint)) : r.status < 400 \/ r.body.data = <<>>}
  ELSE {TransportError}

(***************************************************************************)
(* The HTTP client wrapper (connection_config.go).                         *)
(***************************************************************************)
\* url.Parse(c.BaseURL + endpoint) succeeds
UrlParses(u) == \A i \in 1..Len(u) : u[i] # "%"

NewRequestNoContext(c, method, endpoint) ==
  [method |-> method,
   ctx    |-> FALSE,
   url    |-> c.BaseURL \o endpoint,
   header |-> [OCSAPIREQUEST |-> "true",
               Accept        |-> "application/json",
               ContentType   |-> "application/json",
               UserAgent     |-> "Steampipe-Nextcloud-Plugin/1.0"],
   auth   |-> [username |-> c.Username, password |-> c.Password]]

NewRequestNoAuth(c, method, endpoint) ==
  [method |-> method,
   ctx    |-> TRUE,
   url    |-> c.BaseURL \o endpoint,
   header |-> [OCSAPIREQUEST |-> "true",
               Accept        |-> "application/json",
               ContentType   |-> "application/json",
               UserAgent     |-> "Steampipe-Nextcloud-Plugin/1.0"],
   auth   |-> [username |-> <<>>, password |-> <<>>]]

\* the request MakeRequest hands to HTTPClient.Do: built with
\* http.NewRequestWithContext(ctx, ...), so ctx says it is bound to the
\* caller's context; url is u.String() of the parsed BaseURL + endpoint
NewRequest(c, method, endpoint) ==
  [method |-> method,
   ctx    |-> TRUE,
   url    |-> c.BaseURL \o endpoint,
   header |-> [OCSAPIREQUEST |-> "true",
               Accept        |-> "application/json",
               ContentType   |-> "application/json",
               UserAgent     |-> "Steampipe-Nextcloud-Plugin/1.0"],
   auth   |-> [username |-> c.Username, password |-> c.Password]]

\* MakeRequest when url.Parse fails
InvalidURL == [resp |-> None, err |-> <<"invalid URL: ", "parse error">>]

MakeRequestReturnAbove400(out) ==
  IF out.transport
    THEN [resp |-> None, err |-> <<"request failed: ", "transport error">>]
  ELSE IF out.status > 400
    THEN [resp |-> None,
          err  |-> <<"Nextcloud API error ">> \o FormatInt(out.status)
                     \o <<": ">> \o RawText(out.body)]
  ELSE [resp |-> Some([StatusCode |-> out.status, Body |-> out.body]),
        err  |-> NoErr]

\* MakeRequest from the return of HTTPClient.Do on.  The body in the error
\* is what io.ReadAll yields.
MakeRequestReturn(out) ==
  IF out.transport
    THEN [resp |-> None, err |-> <<"request failed: ", "transport error">>]
  ELSE IF out.status >= 400
    THEN [resp |-> None,
          err  |-> <<"Nextcloud API error ">> \o FormatInt(out.status)
                     \o <<": ">> \o RawText(out.body)]
  ELSE [resp |-> Some([StatusCode |-> out.status, Body |-> out.body]),
        err  |-> NoErr]

DecodeErrorIgnored(body) == NoErr

\* json.NewDecoder(resp.Body).Decode(&v): the decode error, NoErr if none
DecodeError(body) == IF body.json THEN NoErr ELSE <<"invalid character">>

\* GetJSON after MakeRequest has returned mr
GetJSON(mr) == IF mr.err # NoErr THEN mr.err ELSE DecodeError(mr.resp[1].Body)

\* TestConnection after MakeRequest has returned mr
TestConnection(mr) ==
  LET e == GetJSON(mr)
  IN IF e # NoErr THEN <<"connection test failed: ">> \o e ELSE NoErr

\* NewNextcloudClient after TestConnection has returned tcErr
NewNextcloudClientReturn(c, tcErr) ==
  IF tcErr # NoErr
    THEN [client |-> None, err |-> <<"unable to connect to Nextcloud: ">> \o tcErr]
  ELSE [client |-> Some(c), err |-> NoErr]

(***************************************************************************)
(* The query: equality qualifiers (d.EqualsQuals).                         *)
(***************************************************************************)
QualKeys == {"id", "user", "user_id"}
IdStrings == {<<>>, <<"1">>, <<"1", "1">>, <<"-", "1">>, <<"x">>}

\* proto.QualValue: a string value or an int64 value
StringQual(s) == [kind |-> "string", str |-> s, i64 |-> 0]
Int64Qual(n) == [kind |-> "int64", str |-> <<>>, i64 |-> n]

QualValues(k) ==
  IF k = "id" THEN {StringQual(s) : s \in IdStrings} \cup {Int64Qual(n) : n \in ActivityIds}
  ELSE {StringQual(u) : u \in UserNames}

AllQualValues == UNION {QualValues(k) : k \in QualKeys}

\* d.EqualsQuals: a map from column name to qualifier value
EqualsQuals ==
  UNION {{q \in [K -> AllQualValues] : \A k \in K : q[k] \in QualValues(k)} :
           K \in {X \in SUBSET QualKeys : Cardinality(X) <= MaxQuals}}

HasQual(q, k) == k \in DOMAIN q

\* qual.GetStringValue() / qual.GetInt64Value(): the zero value when the
\* qualifier holds the other kind
GetStringValue(v) == IF v.kind = "string" THEN v.str ELSE <<>>
GetInt64Value(v) == IF v.kind = "int64" THEN v.i64 ELSE 0

(***************************************************************************)
(* The table handlers.                                                      *)
(***************************************************************************)
Handlers == {"listActivity", "getActivity", "listShares", "getShare"}
ListHandlers == {"listActivity", "listShares"}

\* time.Time's UnmarshalJSON: the wall clock and the zone of RFC 3339 text
ParseTime(d) == [wall |-> d[1], zone |-> d[2]]

DecodeActivityIdTag(w) ==
  [ActivityID |-> 0, User |-> w.user, App |-> w.app, Type |-> w.type,
   Subject |-> w.subject, Time |-> ParseTime(w.datetime)]

\* json decoding of one element of data into the Go struct: each field
\* from the key of its json tag
DecodeActivity(w) ==
  [ActivityID |-> w.activity_id, User |-> w.user, App |-> w.app, Type |-> w.type,
   Subject |-> w.subject, Time |-> ParseTime(w.datetime)]

\* the columns of table nextcloud_activity for a streamed Activity: id is
\* transform.ToString of ActivityID, the others are the fields as they are
ActivityRow(a) ==
  [id |-> FormatInt(a.ActivityID), app |-> a.App, type |-> a.Type,
   subject |-> a.Subject, time |-> a.Time, user |-> a.User]
DecodeShare(w) == [ID |-> w.id, UIDOwner |-> w.uid_owner]

\* json.NewDecoder(resp.Body).Decode(&result) into the envelope struct
DecodeActivityList(body) ==
  [Meta |-> body.meta, Data |-> [i \in 1..Len(body.data) |-> DecodeActivity(body.data[i])]]
DecodeShareList(body) ==
  [Meta |-> body.meta, Data |-> [i \in 1..Len(body.data) |-> DecodeShare(body.data[i])]]

Ret(its, res, e) == [items |-> its, result |-> res, err |-> e]

\* the head of getActivity and getShare: the id qualifier
IdQualifier(h, q) ==
  IF h \notin {"getActivity", "getShare"} THEN [err |-> NoErr, id |-> <<>>, idInt |-> 0]
  ELSE IF ~HasQual(q, "id")
    THEN [err |-> <<"id qualifier not provided">>, id |-> <<>>, idInt |-> 0]
  ELSE IF h = "getShare"
    THEN [err |-> NoErr, id |-> <<>>, idInt |-> GetInt64Value(q["id"])]
  ELSE LET id == GetStringValue(q["id"])
           p  == ParseInt(id)
       IN IF ~p.ok THEN [err |-> <<"invalid ID format: ">> \o id, id |-> id, idInt |-> 0]
          ELSE [err |-> NoErr, id |-> id, idInt |-> p.val]

DataEndpoint(h, q) ==
  IF h \in {"listActivity", "getActivity"} THEN ActivityEndpoint
  ELSE IF h = "listShares" THEN SharesEndpoint
  ELSE ShareEndpoint(IdQualifier(h, q).idInt)

OcsError(pre, mid, meta) ==
  <<pre>> \o meta.message \o <<mid>> \o FormatInt(meta.statuscode) \o <<")">>

ActivityItemsNoNilCheck(q, data) ==
  SelectSeq(data, LAMBDA a :
     a.User = (IF HasQual(q, "user_id") THEN GetStringValue(q["user_id"]) ELSE <<>>))

\* the rows listActivity streams for a decoded "ok" envelope
ActivityItems(q, data) ==
  IF HasQual(q, "user_id")
    THEN SelectSeq(data, LAMBDA a : a.User = GetStringValue(q["user_id"]))
  ELSE data

\* listActivity after MakeRequest has returned mr
listActivity(q, mr) ==
  IF mr.err # NoErr THEN Ret(<<>>, None, mr.err)
  ELSE LET body == mr.resp[1].Body
           res  == DecodeActivityList(body)
       IN IF DecodeError(body) # NoErr
            THEN Ret(<<>>, None, <<"échec du décodage JSON Nextcloud Activity : ">> \o DecodeError(body))
          ELSE IF res.Meta.status # "ok"
            THEN Ret(<<>>, None, OcsError("erreur OCS API : ", " (code : ", res.Meta))
          ELSE Ret(ActivityItems(q, res.Data), None, NoErr)

FindActivityOrFirst(data, idInt) ==
  LET hits == SelectSeq(data, LAMBDA a : a.ActivityID = idInt)
  IN IF hits # <<>> THEN Some(Head(hits))
     ELSE IF data # <<>> THEN Some(Head(data))
     ELSE None

FindActivityLast(data, idInt) ==
  LET hits == SelectSeq(data, LAMBDA a : a.ActivityID = idInt)
  IN IF hits = <<>> THEN None ELSE Some(hits[Len(hits)])

\* the linear scan of getActivity: the first element with the id, if any
FindActivity(data, idInt) ==
  LET hits == SelectSeq(data, LAMBDA a : a.ActivityID = idInt)
  IN IF hits = <<>> THEN None ELSE Some(Head(hits))

\* getActivity after MakeRequest has returned mr
getActivity(q, mr) ==
  IF mr.err # NoErr THEN Ret(<<>>, None, mr.err)
  ELSE LET body == mr.resp[1].Body
           res  == DecodeActivityList(body)
           id   == IdQualifier("getActivity", q)
       IN IF DecodeError(body) # NoErr
            THEN Ret(<<>>, None, <<"échec du décodage JSON Nextcloud Activity : ">> \o DecodeError(body))
          ELSE IF res.Meta.status # "ok"
            THEN Ret(<<>>, None, OcsError("OCS API error: ", " (code: ", res.Meta))
          ELSE IF FindActivity(res.Data, id.idInt) # None
            THEN Ret(<<>>, FindActivity(res.Data, id.idInt), NoErr)
          ELSE Ret(<<>>, None, <<"activity with ID ">> \o id.id \o <<" not found">>)

listSharesNoStatusCheck(q, mr) ==
  IF mr.err # NoErr THEN Ret(<<>>, None, mr.err)
  ELSE LET body == mr.resp[1].Body
           res  == DecodeShareList(body)
       IN IF DecodeError(body) # NoErr
            THEN Ret(<<>>, None, <<"error decoding JSON Nextcloud Shares: ">> \o DecodeError(body))
          ELSE Ret(res.Data, None, NoErr)

\* listShares after MakeRequest has returned mr
listShares(q, mr) ==
  IF mr.err # NoErr THEN Ret(<<>>, None, mr.err)
  ELSE LET body == mr.resp[1].Body
           res  == DecodeShareList(body)
       IN IF DecodeError(body) # NoErr
            THEN Ret(<<>>, None, <<"error decoding JSON Nextcloud Shares: ">> \o DecodeError(body))
          ELSE IF res.Meta.status # "ok"
            THEN Ret(<<>>, None, OcsError("OCS API error: ", " (code ", res.Meta))
          ELSE Ret(res.Data, None, NoErr)

\* getShare after MakeRequest has returned mr
getShare(q, mr) ==
  IF mr.err # NoErr THEN Ret(<<>>, None, mr.err)
  ELSE LET body == mr.resp[1].Body
           res  == DecodeShareList(body)
           id   == IdQualifier("getShare", q)
       IN IF DecodeError(body) # NoErr
            THEN Ret(<<>>, None, <<"error decoding JSON Nextcloud Share detail: ">> \o DecodeError(body))
          ELSE IF res.Meta.status # "ok" \/ Len(res.Data) = 0
            THEN Ret(<<>>, None, <<"share with ID ">> \o FormatInt(id.idInt) \o <<" not found">>)
          ELSE Ret(<<>>, Some(res.Data[1]), NoErr)

Hydrate(h, q, mr) ==
  IF h = "listActivity" THEN listActivity(q, mr)
  ELSE IF h = "getActivity" THEN getActivity(q, mr)
  ELSE IF h = "listShares" THEN listShares(q, mr)
  ELSE getShare(q, mr)

(***************************************************************************)
(* One handler invocation as a state machine.                              *)
(*   pc      where the invocation is: "idle" (not called yet), "probe"     *)
(*           (TestConnection waits for the remote), "request" (the data    *)
(*           request waits for the remote), "stream" (the StreamListItem   *)
(*           loop), "done" (the handler has returned)                      *)
(*   client  the handler's local client, None until GetClient returned one *)
(*   calls   the calls of MakeRequest so far: the endpoint, the request    *)
(*           handed to HTTPClient.Do (None if none was), what Do yielded   *)
(*           and what MakeRequest returned (None while in flight)          *)
(*   items   the records the list loop ranges over                         *)
(*   rows    the rows streamed to the host with d.StreamListItem           *)
(*   result, err   the handler's return values                             *)
(*   ctx     the caller's context: "active", or once the caller cancelled  *)
(*           it, the pc at which it did                                    *)
(*   procs   the invocations of SpecConc (empty under Spec)                *)
(***************************************************************************)
Call(endpoint, sent, out, ret) ==
  [endpoint |-> endpoint, sent |-> sent, out |-> out, ret |-> ret]

Local(p, cl, cs, its, res, e) ==
  [pc |-> p, client |-> cl, calls |-> cs, items |-> its, result |-> res, err |-> e]

\* the handler from the return r of its body on: a list handler without
\* error enters its StreamListItem loop, everything else returns
Finish(h, cl, cs, r) ==
  IF h \in ListHandlers /\ r.err = NoErr
    THEN Local("stream", Some(cl), cs, r.items, None, NoErr)
  ELSE Local("done", Some(cl), cs, <<>>, r.result, r.err)

\* the handler once GetClient has returned cl: client.MakeRequest(ctx, "GET", endpoint, nil)
DataRequest(h, q, cl, cs) ==
  LET endpoint == DataEndpoint(h, q)
      req      == NewRequest(cl, "GET", endpoint)
  IN IF ~UrlParses(req.url)
       THEN Finish(h, cl, Append(cs, Call(endpoint, None, None, Some(InvalidURL))),
                   Hydrate(h, q, InvalidURL))
     ELSE Local("request", Some(cl), Append(cs, Call(endpoint, Some(req), None, None)),
                <<>>, None, NoErr)

AfterProbeRetry(h, q, cl, cs, mr) ==
  LET r == NewNextcloudClientReturn(cl, TestConnection(mr))
  IN IF r.err # NoErr /\ Len(cs) < 2
       THEN Local("probe", None,
                  Append(cs, Call(ProbeEndpoint, Some(NewRequest(cl, "GET", ProbeEndpoint)),
                                  None, None)),
                  <<>>, None, NoErr)
     ELSE IF r.err # NoErr THEN Local("done", None, cs, <<>>, None, r.err)
     ELSE DataRequest(h, q, r.client[1], cs)

\* GetClient once MakeRequest has returned mr to the probe, and the handler's
\* "if err != nil { return nil, err }" after it
AfterProbe(h, q, cl, cs, mr) ==
  LET r == NewNextcloudClientReturn(cl, TestConnection(mr))
  IN IF r.err # NoErr THEN Local("done", None, cs, <<>>, None, r.err)
     ELSE DataRequest(h, q, r.client[1], cs)

\* the handler from its call to the first point where it waits for the remote
Enter(h, c, q) ==
  LET id  == IdQualifier(h, q)
      v   == ValidateConfig(GetConfig(c))
      req == NewRequest(v.client[1], "GET", ProbeEndpoint)
  IN IF id.err # NoErr THEN Local("done", None, <<>>, <<>>, None, id.err)
     ELSE IF v.err # NoErr THEN Local("done", None, <<>>, <<>>, None, v.err)
     ELSE IF ~UrlParses(req.url)
       THEN AfterProbe(h, q, v.client[1],
                       <<Call(ProbeEndpoint, None, None, Some(InvalidURL))>>, InvalidURL)
     ELSE Local("probe", None, <<Call(ProbeEndpoint, Some(req), None, None)>>,
                <<>>, None, NoErr)

Become(l) ==
  /\ pc' = l.pc
  /\ client' = l.client
  /\ calls' = l.calls
  /\ items' = l.items
  /\ result' = l.result
  /\ err' = l.err

NilConnection == [nil |-> TRUE, cfgType |-> "nil", cfg |-> ConfigInstance]

Init ==
  /\ pc = "idle"
  /\ handler = "none"
  /\ conn = NilConnection
  /\ quals = <<>>
  /\ client = None
  /\ calls = <<>>
  /\ items = <<>>
  /\ rows = <<>>
  /\ result = None
  /\ err = NoErr
  /\ ctx = "active"
  /\ procs = <<>>

\* the host calls a hydrate function with a connection and qualifiers
Invoke ==
  /\ pc = "idle"
  /\ \E h \in Handlers, c \in Connections, q \in EqualsQuals :
       /\ handler' = h
       /\ conn' = c
       /\ quals' = q
       /\ Become(Enter(h, c, q))
  /\ UNCHANGED <<rows, ctx, procs>>

\* the client under construction in NewNextcloudClient
Building == ValidateConfig(GetConfig(conn)).client[1]

Answered(cs, out, mr) ==
  [cs EXCEPT ![Len(cs)] = Call(@.endpoint, @.sent, Some(out), Some(mr))]

\* HTTPClient.Do returns for the probe
ProbeResponse ==
  /\ pc = "probe"
  /\ \E out \in DoOutcomes(calls[Len(calls)].sent[1], calls[Len(calls)].endpoint) :
       LET mr == MakeRequestReturn(out)
       IN Become(AfterProbe(handler, quals, Building, Answered(calls, out, mr), mr))
  /\ UNCHANGED <<handler, conn, quals, rows, ctx, procs>>

\* HTTPClient.Do returns for the data request
DataResponse ==
  /\ pc = "request"
  /\ \E out \in DoOutcomes(calls[Len(calls)].sent[1], calls[Len(calls)].endpoint) :
       LET mr == MakeRequestReturn(out)
       IN Become(Finish(handler, client[1], Answered(calls, out, mr),
                        Hydrate(handler, quals, mr)))
  /\ UNCHANGED <<handler, conn, quals, rows, ctx, procs>>

StreamListItemChecked ==
  /\ pc = "stream"
  /\ Len(rows) < Len(items)
  /\ IF ctx # "active"
       THEN /\ pc' = "done"
            /\ err' = <<"context canceled">>
            /\ UNCHANGED rows
       ELSE /\ rows' = Append(rows, items[Len(rows) + 1])
            /\ UNCHANGED <<pc, err>>
  /\ UNCHANGED <<handler, conn, quals, client, calls, items, result, ctx, procs>>

\* one iteration of "for _, x := range result.Ocs.Data { d.StreamListItem(ctx, x) }"
StreamListItem ==
  /\ pc = "stream"
  /\ Len(rows) < Len(items)
  /\ rows' = Append(rows, items[Len(rows) + 1])
  /\ UNCHANGED <<pc, handler, conn, quals, client, calls, items, result, err, ctx, procs>>

\* "return nil, nil" after the loop
Return ==
  /\ pc = "stream"
  /\ Len(rows) = Len(items)
  /\ pc' = "done"
  /\ UNCHANGED <<handler, conn, quals, client, calls, items, rows, result, err, ctx, procs>>

\* the caller cancels the context of a running invocation
Cancel ==
  /\ pc \in {"probe", "request", "stream"}
  /\ ctx = "active"
  /\ ctx' = pc
  /\ UNCHANGED <<pc, handler, conn, quals, client, calls, items, rows, result, err, procs>>

Next ==
  \/ Invoke
  \/ ProbeResponse
  \/ DataResponse
  \/ StreamListItem
  \/ Return
  \/ Cancel

Spec == Init /\ [][Next]_vars

(***************************************************************************)
(* Concurrent invocations.  The host may run several hydrate calls over    *)
(* one connection at once; each runs the handler above with its own        *)
(* locals, and they interleave where a handler waits for the remote or     *)
(* streams a row.  procs[p] holds the locals of invocation p; conn is the  *)
(* connection they are all given.                                          *)
(***************************************************************************)
Procs == 1..NumProcs

\* the variables of the single invocation of Spec
soloVars == <<pc, handler, conn, quals, client, calls, items, rows, result, err, ctx>>

\* conn is d.Connection as the invocation was given it
Proc(h, c, q, rs, l) == [handler |-> h, conn |-> c, quals |-> q, rows |-> rs, loc |-> l]

IdleProc ==
  Proc("none", NilConnection, <<>>, <<>>, Local("idle", None, <<>>, <<>>, None, NoErr))

\* the connections and queries of the concurrent runs
ConcConnections ==
  {NilConnection, [nil |-> FALSE, cfgType |-> "ptr", cfg |-> FullConfig]}

ConcQuals(h) ==
  IF h = "getActivity" THEN {[k \in {"id"} |-> StringQual(<<"1">>)]}
  ELSE IF h = "getShare" THEN {[k \in {"id"} |-> Int64Qual(1)]}
  ELSE {<<>>}

\* what Do returns in the concurrent runs: an error, or a 200 with an "ok"
\* envelope of at most one record
ConcOutcomes(req, endpoint) ==
  {o \in DoOutcomes(req, endpoint) :
     \/ o.transport
     \/ /\ o.status = 200
        /\ o.body.json
        /\ o.body.meta.status = "ok"
        /\ Len(o.body.data) <= 1}

ConcInit ==
  /\ pc = "idle" /\ handler = "none" /\ quals = <<>> /\ client = None
  /\ calls = <<>> /\ items = <<>> /\ rows = <<>> /\ result = None
  /\ err = NoErr /\ ctx = "active"
  /\ conn \in ConcConnections
  /\ procs = [p \in Procs |-> IdleProc]

OwnItemsShared(p) == procs[1].loc.items

\* "var result": the decoded data the StreamListItem loop of invocation p
\* ranges over is a local of that invocation
OwnItems(p) == procs[p].loc.items

ConcInvoke(p) ==
  /\ procs[p].loc.pc = "idle"
  /\ \E h \in Handlers :
       \E q \in ConcQuals(h) :
         procs' = [procs EXCEPT ![p] = Proc(h, conn, q, <<>>, Enter(h, conn, q))]
  /\ UNCHANGED soloVars

ConcProbeResponse(p) ==
  LET me == procs[p]
      cs == me.loc.calls
  IN /\ me.loc.pc = "probe"
     /\ \E out \in ConcOutcomes(cs[Len(cs)].sent[1], cs[Len(cs)].endpoint) :
          LET mr == MakeRequestReturn(out)
          IN procs' = [procs EXCEPT ![p].loc =
                         AfterProbe(me.handler, me.quals, Building, Answered(cs, out, mr), mr)]
     /\ UNCHANGED soloVars

ConcDataResponse(p) ==
  LET me == procs[p]
      cs == me.loc.calls
  IN /\ me.loc.pc = "request"
     /\ \E out \in ConcOutcomes(cs[Len(cs)].sent[1], cs[Len(cs)].endpoint) :
          LET mr == MakeRequestReturn(out)
          IN procs' = [procs EXCEPT ![p].loc =
                         Finish(me.handler, me.loc.client[1], Answered(cs, out, mr),
                                Hydrate(me.handler, me.quals, mr))]
     /\ UNCHANGED soloVars

ConcStreamListItem(p) ==
  /\ procs[p].loc.pc = "stream"
  /\ Len(procs[p].rows) < Len(OwnItems(p))
  /\ procs' = [procs EXCEPT ![p].rows = Append(@, OwnItems(p)[Len(@) + 1])]
  /\ UNCHANGED soloVars

ConcReturn(p) ==
  /\ procs[p].loc.pc = "stream"
  /\ Len(procs[p].rows) >= Len(OwnItems(p))
  /\ procs' = [procs EXCEPT ![p].loc.pc = "done"]
  /\ UNCHANGED soloVars

ConcNext ==
  \/ \E p \in Procs : ConcInvoke(p)
  \/ \E p \in Procs : ConcProbeResponse(p)
  \/ \E p \in Procs : ConcDataResponse(p)
  \/ \E p \in Procs : ConcStreamListItem(p)
  \/ \E p \in Procs : ConcReturn(p)

SpecConc == ConcInit /\ [][ConcNext]_vars

(***************************************************************************)
(* Properties.                                                              *)
(***************************************************************************)
Called == pc # "idle"

\* the handler got as far as calling GetClient
ReachedGetClient == Called /\ IdQualifier(handler, quals).err = NoErr

\* the value configured for a setting: None when the connection carries no
\* NextcloudConfig or the setting is absent
Setting(name) ==
  IF conn.nil \/ conn.cfgType \notin {"ptr", "value"} THEN None
  ELSE IF name = "server_url" THEN conn.cfg.ServerURL
  ELSE IF name = "username" THEN conn.cfg.Username
  ELSE conn.cfg.Password

SettingNames == <<"server_url", "username", "password">>
Missing(name) == Setting(name) = None \/ Setting(name) = Some(<<>>)
AllConfigured == \A i \in 1..3 : ~Missing(SettingNames[i])

RECURSIVE TrailingSlashes(_)
TrailingSlashes(s) ==
  IF s = <<>> \/ s[Len(s)] # "/" THEN 0
  ELSE 1 + TrailingSlashes(SubSeq(s, 1, Len(s) - 1))

Stem(s) == SubSeq(s, 1, Len(s) - TrailingSlashes(s))

\* C1 as stated: whenever a client is built, its BaseURL ends with exactly
\* one "/", whatever number of "/" the configured server_url ended with.
C1_ExactlyOneSlash ==
  client # None => TrailingSlashes(client[1].BaseURL) = 1

\* C1 amended: the BaseURL of a built client ends with "/" and differs from
\* the configured server_url by at most that one appended "/"; it ends with
\* exactly one "/" when server_url ended with none or one, and keeps every
\* trailing "/" of a server_url that ended with several.
C1_TrailingSlash ==
  client # None =>
    LET u == Setting("server_url")[1]
        b == client[1].BaseURL
    IN /\ AllConfigured
       /\ HasSuffix(b, <<"/">>)
       /\ Stem(b) = Stem(u)
       /\ TrailingSlashes(b) = IF TrailingSlashes(u) = 0 THEN 1 ELSE TrailingSlashes(u)
       /\ TrailingSlashes(u) <= 1 => TrailingSlashes(b) = 1

C1_Witness ==
  /\ client # None
  /\ TrailingSlashes(Setting("server_url")[1]) = 1
  /\ TrailingSlashes(client[1].BaseURL) = 1

\* C2: when a setting is absent or empty, NewNextcloudClient returns no
\* client and an error naming the first missing setting in the order
\* server_url, username, password (a nil connection, a nil Config or a
\* Config of another type counting as all three missing); nothing is sent.
C2_MissingSetting ==
  ReachedGetClient =>
    \A i \in 1..3 :
      (Missing(SettingNames[i]) /\ \A j \in 1..(i - 1) : ~Missing(SettingNames[j])) =>
        /\ pc = "done"
        /\ client = None
        /\ result = None
        /\ calls = <<>>
        /\ err = <<SettingNames[i], " must be configured">>

C2_Witness ==
  /\ ReachedGetClient
  /\ ~Missing("server_url") /\ Missing("username") /\ Missing("password")
  /\ client = None
  /\ err[1] = "username"

\* the calls of MakeRequest that Do has answered with an HTTP response
Responded(i) ==
  /\ i \in 1..Len(calls)
  /\ calls[i].out # None
  /\ ~calls[i].out[1].transport

\* C3: a response with status >= 400 makes MakeRequest return no response
\* and an error holding the status code and the raw body text, for JSON and
\* non-JSON bodies alike; a response with status < 400 is returned without
\* error.
C3_HttpStatusError ==
  \A i \in 1..Len(calls) :
    Responded(i) =>
      LET out == calls[i].out[1]
          ret == calls[i].ret[1]
      IN IF out.status >= 400
           THEN /\ ret.resp = None
                /\ Contains(ret.err, FormatInt(out.status))
                /\ Contains(ret.err, RawText(out.body))
         ELSE /\ ret.err = NoErr
              /\ ret.resp = Some([StatusCode |-> out.status, Body |-> out.body])

C3_Witness ==
  /\ Len(calls) = 2
  /\ Responded(2)
  /\ calls[2].out[1].status = 400
  /\ ~calls[2].out[1].body.json
  /\ calls[2].ret[1].resp = None
  /\ Contains(calls[2].ret[1].err, <<"4", "0", "0">>)
  /\ Contains(calls[2].ret[1].err, <<"<html>">>)

\* the data request of the invocation has been answered with a status < 400
\* and a body that decodes into the envelope
Fetched ==
  /\ Len(calls) = 2
  /\ Responded(2)
  /\ calls[2].out[1].status < 400
  /\ calls[2].out[1].body.json

Envelope == calls[2].out[1].body
FetchedOk == Fetched /\ Envelope.meta.status = "ok"

\* C4: in every handler a decoded envelope whose meta.status is not "ok"
\* ends the invocation with an error carrying meta.message and
\* meta.statuscode, and no record is emitted or returned.
C4_EnvelopeError ==
  (Fetched /\ Envelope.meta.status # "ok") =>
    /\ pc = "done"
    /\ rows = <<>>
    /\ result = None
    /\ Contains(err, Envelope.meta.message)
    /\ Contains(err, FormatInt(Envelope.meta.statuscode))

\* an element of data and the row or record made of it
SameRecord(row, w) ==
  IF handler \in {"listActivity", "getActivity"}
    THEN row.ActivityID = w.activity_id /\ row.User = w.user
  ELSE row.ID = w.id /\ row.UIDOwner = w.uid_owner

\* rows are the elements of data, in order
SameRecords(rs, ws) ==
  /\ Len(rs) = Len(ws)
  /\ \A i \in 1..Len(rs) : SameRecord(rs[i], ws[i])

\* C5: listActivity called with the qualifier user = X streams, after an
\* "ok" fetch, exactly the elements of data whose user is X, in data order.
C5_UserQualifier ==
  (handler = "listActivity" /\ pc = "done" /\ FetchedOk /\ HasQual(quals, "user")) =>
    SameRecords(rows, SelectSeq(Envelope.data,
                                LAMBDA w : w.user = GetStringValue(quals["user"])))

\* C6: without qualifiers, listActivity and listShares stream after an "ok"
\* fetch exactly the elements of data, each once and in data order, and
\* return without error; empty data gives no row and no error.
C6_ListStreamsData ==
  (handler \in ListHandlers /\ FetchedOk /\ DOMAIN quals = {}) =>
    /\ err = NoErr
    /\ result = None
    /\ pc \in {"stream", "done"}
    /\ Len(rows) <= Len(Envelope.data)
    /\ SameRecords(rows, SubSeq(Envelope.data, 1, Len(rows)))
    /\ pc = "done" => SameRecords(rows, Envelope.data)

C6_Witness ==
  /\ handler \in ListHandlers
  /\ FetchedOk
  /\ DOMAIN quals = {}
  /\ pc = "done"
  /\ Len(Envelope.data) = 2
  /\ Envelope.data[1] # Envelope.data[2]
  /\ SameRecords(rows, Envelope.data)

IsNotFound(e) == e # NoErr /\ e[Len(e)] = " not found"

RequestedId == IdQualifier(handler, quals).idInt

\* no element of data is the activity asked for
NoMatch ==
  \A i \in 1..Len(Envelope.data) : Envelope.data[i].activity_id # RequestedId

\* C7: getActivity and getShare return a not-found error and a nil result
\* after an "ok" fetch whose data is empty or, for getActivity, holds no
\* record with the requested id.
C7_NotFound ==
  (/\ handler \in {"getActivity", "getShare"}
   /\ FetchedOk
   /\ \/ Envelope.data = <<>>
      \/ handler = "getActivity" /\ NoMatch) =>
    /\ pc = "done"
    /\ result = None
    /\ rows = <<>>
    /\ IsNotFound(err)

C7_Witness ==
  /\ handler = "getActivity"
  /\ FetchedOk
  /\ Envelope.data # <<>>
  /\ NoMatch
  /\ result = None
  /\ IsNotFound(err)

\* C8: getActivity and getShare report not-found only after the data
\* request succeeded with an "ok" envelope that holds no matching record.
C8_NotFoundOnlyAfterOkFetch ==
  (handler \in {"getActivity", "getShare"} /\ IsNotFound(err)) =>
    /\ FetchedOk
    /\ IF handler = "getActivity" THEN NoMatch ELSE Envelope.data = <<>>

\* what the remote service answered to the probe
ProbeAnswer == calls[1].out[1]

ProbeSucceeded ==
  /\ Len(calls) >= 1
  /\ Responded(1)
  /\ ProbeAnswer.status < 400
  /\ ProbeAnswer.body.json
  /\ ProbeAnswer.body.meta.status = "ok"

ProbeOver == Len(calls) >= 1 /\ calls[1].ret # None

\* C9: a client is returned only if the probe succeeded; a probe that fails
\* (transport error, status >= 400, undecodable body or an envelope that
\* reports a failure) makes construction return nil and the probe's error
\* wrapped with the connection message.
C9_ClientVerified ==
  /\ client # None => ProbeSucceeded
  /\ (ProbeOver /\ ~ProbeSucceeded) =>
       /\ client = None
       /\ pc = "done"
       /\ SubSeq(err, 1, 2) = <<"unable to connect to Nextcloud: ", "connection test failed: ">>

Count(P(_)) == Cardinality({i \in 1..Len(calls) : P(i)})
IsProbeRequest(i) == calls[i].sent # None /\ calls[i].endpoint = ProbeEndpoint
IsDataRequest(i) == calls[i].sent # None /\ calls[i].endpoint # ProbeEndpoint
CallFailed(i) == calls[i].ret # None /\ calls[i].ret[1].err # NoErr

\* C10: an invocation issues at most one probe request and at most one data
\* request, and the first failing step ends it with that step's error: no
\* request follows a failed one, no step is repeated, no row is streamed.
C10_NoRetry ==
  /\ Count(IsProbeRequest) <= 1
  /\ Count(IsDataRequest) <= 1
  /\ Len(calls) <= 2
  /\ \A i \in 1..Len(calls) :
       /\ IsDataRequest(i) => i = 2 /\ IsProbeRequest(1) /\ ~CallFailed(1)
       /\ CallFailed(i) =>
            /\ i = Len(calls)
            /\ pc = "done"
            /\ HasSuffix(err, calls[i].ret[1].err)
  /\ err # NoErr => pc = "done" /\ rows = <<>> /\ result = None
  /\ (ReachedGetClient /\ ~AllConfigured) => calls = <<>> /\ err # NoErr
  /\ (Fetched /\ Envelope.meta.status # "ok") => err # NoErr
  /\ (Len(calls) = 2 /\ Responded(2) /\ ~calls[2].out[1].body.json) => err # NoErr

C10_Witness ==
  /\ Len(calls) = 2
  /\ IsProbeRequest(1)
  /\ IsDataRequest(2)
  /\ Responded(2)
  /\ calls[2].out[1].status = 500
  /\ pc = "done"
  /\ HasSuffix(err, calls[2].ret[1].err)


\* the call of MakeRequest that was in flight when the caller cancelled
InFlightAtCancel == IF ctx = "probe" THEN 1 ELSE 2

\* C11: every outbound HTTP call is bound to the caller's context.  When the
\* caller cancels while the probe or the data request is in flight (handed
\* to Do, not yet answered), that call returns an error, the handler returns
\* with an error that wraps it, and no row is streamed and no record
\* returned from then on.
C11_ContextCancellation ==
  ctx \in {"probe", "request"} =>
    LET k == InFlightAtCancel
    IN /\ Len(calls) = k
       /\ calls[k].sent # None /\ calls[k].sent[1].ctx
       /\ rows = <<>> /\ result = None
       /\ calls[k].ret = None => pc = ctx
       /\ calls[k].ret # None =>
            /\ calls[k].ret[1].resp = None
            /\ calls[k].ret[1].err # NoErr
            /\ pc = "done"
            /\ err # NoErr
            /\ HasSuffix(err, calls[k].ret[1].err)

\* a list handler whose data request was cancelled in flight has returned
C11_Witness ==
  /\ ctx = "request"
  /\ handler \in ListHandlers
  /\ pc = "done"
  /\ calls[1].ret[1].err = NoErr
  /\ err = calls[2].ret[1].err

IsPrefix(s, t) == Len(s) <= Len(t) /\ SubSeq(t, 1, Len(s)) = s

\* a list handler is in its StreamListItem loop and has streamed a row
MidStream == handler \in ListHandlers /\ pc = "stream" /\ rows # <<>>

\* C12 as stated, its second half: a partial failure mid-stream is possible,
\* that is, a list operation that has streamed one or more rows can still
\* end with an error.
C12_PartialFailurePossible ==
  MidStream => ENABLED (Next /\ err' # NoErr)

\* C12 amended: rows already streamed are never retracted (rows only grows
\* by appending), and no list operation that has streamed a row ends with an
\* error: every step that can fail precedes the first StreamListItem, so a
\* failing invocation has streamed nothing and a streaming one returns nil.
C12_NoFailureAfterRows ==
  /\ [][IsPrefix(rows, rows')]_vars
  /\ [](rows # <<>> => /\ handler \in ListHandlers
                       /\ err = NoErr
                       /\ IsPrefix(rows, items)
                       /\ pc = "done" => rows = items)

\* a list handler streamed two rows, the caller cancelled in between, and the
\* handler has returned
C12_Witness ==
  /\ handler \in ListHandlers
  /\ ctx = "stream"
  /\ pc = "done"
  /\ Len(rows) = 2

\* what invocation p would have reached alone, given the connection and the
\* answers of the remote recorded in its own calls
Alone(p) ==
  LET me == procs[p]
      cs == me.loc.calls
      l0 == Enter(me.handler, conn, me.quals)
      l1 == IF l0.pc = "probe" /\ cs[1].out # None
              THEN LET mr == MakeRequestReturn(cs[1].out[1])
                   IN AfterProbe(me.handler, me.quals,
                                 ValidateConfig(GetConfig(conn)).client[1],
                                 Answered(l0.calls, cs[1].out[1], mr), mr)
            ELSE l0
      l2 == IF l1.pc = "request" /\ cs[2].out # None
              THEN LET mr == MakeRequestReturn(cs[2].out[1])
                   IN Finish(me.handler, l1.client[1],
                             Answered(l1.calls, cs[2].out[1], mr),
                             Hydrate(me.handler, me.quals, mr))
            ELSE l1
  IN l2

\* C13: concurrent invocations over one connection share no mutable state.
\* In every interleaving the connection (and its config) is still what each
\* invocation was given, each invocation that has a client built it from
\* that config with a probe of its own, and each invocation's calls, rows,
\* record and error are those it produces alone against the same answers of
\* the remote.
C13_NoSharedState ==
  \A p \in Procs :
    LET me == procs[p]
        a  == Alone(p)
    IN me.loc.pc # "idle" =>
         \* the connection has not been written
         /\ me.conn = conn
         \* its own client, built from the connection's config and probed by
         \* a call of its own
         /\ me.loc.client # None =>
              /\ me.loc.client = ValidateConfig(GetConfig(conn)).client
              /\ me.loc.calls[1].endpoint = ProbeEndpoint
              /\ me.loc.calls[1].ret # None /\ me.loc.calls[1].ret[1].err = NoErr
         \* the same calls, record and error as alone
         /\ me.loc.calls = a.calls
         /\ me.loc.result = a.result
         /\ me.loc.err = a.err
         \* the same rows as alone, in the same order
         /\ IsPrefix(me.rows, a.items)
         /\ me.loc.pc = "done" => (a.pc \in {"done", "stream"} /\ me.rows = a.items)

\* two invocations are under way at once over one connection: a getActivity
\* waits for the answer to its data request while a listShares, in its
\* loop, has streamed a row
C13_Witness ==
  /\ procs[1].handler = "getActivity"
  /\ procs[1].loc.pc = "request"
  /\ procs[2].handler = "listShares"
  /\ procs[2].loc.pc = "stream"
  /\ procs[2].rows # <<>>

\* time.Time formatted as RFC 3339 text
FormatTime(t) == <<t.wall, t.zone>>

Undecodable(i) ==
  /\ Responded(i)
  /\ calls[i].out[1].status < 400
  /\ ~calls[i].out[1].body.json

\* the messages the four handlers put before the decoder's error
DecodePrefixes ==
  [listActivity |-> "échec du décodage JSON Nextcloud Activity : ",
   getActivity  |-> "échec du décodage JSON Nextcloud Activity : ",
   listShares   |-> "error decoding JSON Nextcloud Shares: ",
   getShare     |-> "error decoding JSON Nextcloud Share detail: "]

\* C15: a body that does not decode is a hard error in every operation.  A
\* handler whose data request is answered with such a body returns its
\* decode error (its message, then the decoder's error), streams no row and
\* returns no record; a probe answered with such a body makes client
\* construction fail, and the handler returns that error without sending a
\* data request.
C15_DecodeError ==
  /\ Undecodable(2) =>
       /\ pc = "done"
       /\ err = <<DecodePrefixes[handler], "invalid character">>
       /\ rows = <<>>
       /\ result = None
  /\ Undecodable(1) =>
       /\ pc = "done"
       /\ client = None
       /\ err = <<"unable to connect to Nextcloud: ", "connection test failed: ",
                  "invalid character">>
       /\ Len(calls) = 1
       /\ rows = <<>>
       /\ result = None

\* getShare was answered 200 with a body that is not JSON
C15_Witness ==
  /\ handler = "getShare"
  /\ Undecodable(2)
  /\ calls[2].out[1].status = 200
  /\ pc = "done"

\* C16: the steps of an invocation occur in a fixed order.  A request is
\* sent only for a valid config (an invalid one issues zero requests); the
\* first call is the probe and a data request exists only after the probe
\* returned without error; a row is streamed or a record returned only
\* after the data request was answered, decoded and found "ok"; and an
\* invocation that returns an error has streamed zero rows.
C16_StepOrder ==
  /\ (Called /\ ~AllConfigured) => calls = <<>>
  /\ calls # <<>> =>
       /\ AllConfigured
       /\ IdQualifier(handler, quals).err = NoErr
       /\ calls[1].endpoint = ProbeEndpoint
  /\ Len(calls) >= 2 =>
       /\ calls[1].ret # None
       /\ calls[1].ret[1].err = NoErr
       /\ Responded(1)
       /\ ProbeAnswer.status < 400
       /\ ProbeAnswer.body.json
       /\ calls[2].endpoint = DataEndpoint(handler, quals)
  /\ (rows # <<>> \/ result # None \/ pc = "stream") =>
       /\ FetchedOk
       /\ calls[2].ret[1].err = NoErr
       /\ err = NoErr
  /\ err # NoErr => (pc = "done" /\ rows = <<>> /\ result = None)

\* listShares fetched a "failure" envelope that holds records: it returned
\* the envelope's error and streamed none of them
C16_Witness ==
  /\ handler = "listShares"
  /\ Fetched
  /\ Envelope.meta.status # "ok"
  /\ Envelope.data # <<>>
  /\ pc = "done"
  /\ err # NoErr
  /\ rows = <<>>

\* the text of the id qualifier as getActivity reads it
IdText == IF HasQual(quals, "id") THEN GetStringValue(quals["id"]) ELSE <<>>

\* the integers whose decimal text is the id qualifier
IdValues == {v \in -11..11 : FormatInt(v) = IdText}

\* element i of data is the first one with activity id v
FirstWithId(i, v) ==
  /\ i \in 1..Len(Envelope.data)
  /\ Envelope.data[i].activity_id = v
  /\ \A j \in 1..(i - 1) : Envelope.data[j].activity_id # v

\* C17: getActivity parses the id qualifier as a decimal integer without
\* loss.  A missing id qualifier or an id that is not the decimal text of an
\* integer fails before any client is built or request sent; otherwise the
\* parsed id is the integer the text denotes, a record is returned exactly
\* when an "ok" fetch holds one with that id, and it is the first such
\* element of data, so its id is the requested id.
C17_GetActivityId ==
  (handler = "getActivity" /\ Called) =>
    /\ (~HasQual(quals, "id") \/ IdValues = {}) =>
         /\ pc = "done"
         /\ err # NoErr
         /\ client = None
         /\ calls = <<>>
         /\ result = None
    /\ (HasQual(quals, "id") /\ IdValues # {}) =>
         LET v == CHOOSE x \in IdValues : TRUE
         IN /\ IdQualifier(handler, quals) = [err |-> NoErr, id |-> IdText, idInt |-> v]
            /\ result # None =>
                 /\ FetchedOk
                 /\ result[1].ActivityID = v
                 /\ \E i \in 1..Len(Envelope.data) :
                      FirstWithId(i, v) /\ SameRecord(result[1], Envelope.data[i])
            /\ (FetchedOk /\ \E i \in 1..Len(Envelope.data) : FirstWithId(i, v)) =>
                 (result # None /\ err = NoErr)

\* getActivity returned the first of two records that both have the
\* requested id
C17_Witness ==
  /\ handler = "getActivity"
  /\ FetchedOk
  /\ Len(Envelope.data) = 2
  /\ Envelope.data[1] # Envelope.data[2]
  /\ Envelope.data[1].activity_id = Envelope.data[2].activity_id
  /\ result # None
  /\ SameRecord(result[1], Envelope.data[1])

\* the endpoint call i of the invocation is for
EndpointOf(i) == IF i = 1 THEN ProbeEndpoint ELSE DataEndpoint(handler, quals)

\* C18: every request handed to the HTTP client, the probe as well as the
\* data request, is a GET of the URL made of the configured server_url
\* (with "/" appended when it does not end with one) followed by the
\* relative endpoint, carries the four fixed headers, and carries basic
\* authentication with the configured, non-empty username and password.
C18_RequestShape ==
  \A i \in 1..Len(calls) :
    calls[i].sent # None =>
      LET r == calls[i].sent[1]
          u == Setting("server_url")[1]
          e == EndpointOf(i)
      IN /\ AllConfigured
         /\ calls[i].endpoint = e
         /\ r.method = "GET"
         /\ r.url = (IF HasSuffix(u, <<"/">>) THEN u ELSE u \o <<"/">>) \o e
         /\ r.header = [OCSAPIREQUEST |-> "true",
                        Accept        |-> "application/json",
                        ContentType   |-> "application/json",
                        UserAgent     |-> "Steampipe-Nextcloud-Plugin/1.0"]
         /\ r.auth = [username |-> Setting("username")[1],
                      password |-> Setting("password")[1]]
         /\ r.auth.username # <<>>
         /\ r.auth.password # <<>>

\* getShare sent its probe and its data request for a server_url that was
\* configured without a trailing "/"
C18_Witness ==
  /\ handler = "getShare"
  /\ Len(calls) = 2
  /\ calls[1].sent # None
  /\ calls[2].sent # None
  /\ ~HasSuffix(Setting("server_url")[1], <<"/">>)
====
